---- MODULE Spec2Model ----
(***************************************************************************)
(* A model of annotator.py (segment-anything-annotator): the MainWindow    *)
(* handlers that turn segmentation masks into polygon proposals, commit an *)
(* accepted proposal into the label list, simplify polygons, and save and  *)
(* load the per-image annotation file on navigation.                       *)
(*                                                                         *)
(* Conventions.                                                            *)
(*  - A point is <<x, y>>; a contour and a shape's points are sequences of *)
(*    points.  Sequences are 1-based here and 0-based in the source.       *)
(*  - A group id is a record [k, v]: k = "none" is Python's None, "int"    *)
(*    the int v, "str" the decimal string of v, "strNone" the string       *)
(*    "None" (what str(None) writes).                                      *)
(*  - An unhandled exception in a handler ends the program (PyQt5 aborts   *)
(*    on an unhandled exception in a slot): crashed names the exception,   *)
(*    the state is the one at the raise, and no handler runs afterwards.   *)
(*  - ev is a history variable: the handler that ran last and its inputs.  *)
(***************************************************************************)
EXTENDS Integers, Sequences, FiniteSets, TLC

VARIABLES
    labelList,               \* self.labelList: the shapes of the active image
    sam_mask,                \* self.sam_mask: the selected proposal
    sam_mask_proposal,       \* self.sam_mask_proposal
    image_encoded_flag,      \* self.image_encoded_flag
    predictor,               \* self.predictor is not None
    class_on_flag,           \* self.class_on_flag
    img_list,                \* self.img_list (img_len is its length)
    current_img_index,       \* self.current_img_index (0-based, as in the source)
    current_img,             \* self.current_img: 0 is '', else an image
    current_output_dir,      \* self.current_output_dir
    current_output_filename, \* self.current_output_filename: [dir, img], img = 0 is ''
    save_enabled,            \* self.actions.save.isEnabled()
    undo_enabled,            \* self.actions.undo.isEnabled()
    canvas_shapes,           \* self.canvas.shapes
    shapesBackups,           \* self.canvas.shapesBackups: the edit history
    encoded,                 \* history variable: the images passed to
                             \* predictor.set_image since the active image
                             \* last changed
    undo_trail,              \* history variable: the label lists before the
                             \* commits made on this image and not yet undone
    files,                   \* the annotation files on disk, by [dir, img]
    crashed,                 \* "none", or the exception that ended the program
    ev,                      \* history: the last handler and its inputs
    proposal_masks,          \* history: the masks sam_mask_proposal was built from
    sam_mask_src,            \* history: <<the mask sam_mask was built from>>, or <<>>
    steps                    \* history: the number of handler calls so far

vars == <<labelList, sam_mask, sam_mask_proposal, proposal_masks, sam_mask_src, image_encoded_flag, predictor,
          class_on_flag, img_list, current_img_index, current_img,
          current_output_dir, current_output_filename, save_enabled, files,
          crashed, ev, proposal_masks, sam_mask_src, steps, undo_enabled, canvas_shapes, shapesBackups,
          undo_trail, encoded>>

----------------------------------------------------------------------------
(* Bounds of the model *)

\* images in the image directory
NumImages == 2
\* masks one predict call may return
MaxMasks == 5
\* shapes the label list may hold (guards the handlers that add shapes)
MaxShapes == 2
\* handler calls in one session
MaxSteps == 5
\* the longest polygon point reduction is tried on by itself
MaxPoints == 4

(* Program constants *)

\* len(self.button_proposal_list)
NumButtons == 4
\* the area threshold of the contour filter
MinArea == 100
\* the initial value of min_dis in get_min_dis
Sentinel == 10000

----------------------------------------------------------------------------
(* Values *)

\* Python's None where a label string is expected
PyNone == "<None>"

NoneGid == [k |-> "none", v |-> 0]
IntGid(n) == [k |-> "int", v |-> n]
StrGid(n) == [k |-> "str", v |-> n]
StrNoneGid == [k |-> "strNone", v |-> 0]

\* Shape(label=..., shape_type=..., group_id=...) followed by addPoint for each point
Shape(label, shape_type, group_id, points) ==
    [label |-> label, shape_type |-> shape_type, group_id |-> group_id,
     points |-> points]

\* str(s.group_id) in saveLabels.format_shape
StrOfGid(g) ==
    CASE g.k = "none" -> StrNoneGid
      [] g.k = "int" -> StrGid(g.v)
      [] OTHER -> g

\* int(group_id): [ok, val]; int("None") raises ValueError
IntOfGid(g) ==
    IF g.k = "strNone" THEN [ok |-> FALSE, val |-> 0] ELSE [ok |-> TRUE, val |-> g.v]

Max(a, b) == IF a >= b THEN a ELSE b
Min(a, b) == IF a <= b THEN a ELSE b

----------------------------------------------------------------------------
(* getMaxId *)

RECURSIVE getMaxIdFrom(_, _, _)
\* the loop of getMaxId over labels[i..], max_id so far; [ok, val]
getMaxIdFrom(labels, i, max_id) ==
    IF i > Len(labels) THEN [ok |-> TRUE, val |-> max_id]
    ELSE IF labels[i].group_id.k = "none" THEN getMaxIdFrom(labels, i + 1, max_id)
    ELSE LET n == IntOfGid(labels[i].group_id)
         IN IF ~n.ok THEN [ok |-> FALSE, val |-> max_id]
            ELSE getMaxIdFrom(labels, i + 1, Max(max_id, n.val))

getMaxId(labels) == getMaxIdFrom(labels, 1, -1)

----------------------------------------------------------------------------
(* The segmentation model's answers: predict returns n masks and n scores.  *)
(* A mask is given by what cv2.findContours returns for it, its contours.   *)

cDot   == << <<3, 3>> >>
cSmall == << <<0, 0>>, <<10, 0>>, <<0, 10>> >>
cEdge  == << <<0, 0>>, <<20, 0>>, <<0, 10>> >>
cBig   == << <<0, 0>>, <<30, 0>>, <<0, 20>> >>

\* masks: no contour; one tiny contour; a contour of area 50 beside one of
\* area 300; two contours below the threshold; contours of area 100, 0 and
\* 300; one large contour
MaskCatalogue ==
    << <<>>, <<cDot>>, <<cSmall, cBig>>, <<cDot, cSmall>>,
       <<cEdge, cDot, cBig>>, <<cBig>> >>

\* the masks of one answer: n masks, read from the catalogue starting after off
PredMasks(n, off) ==
    [i \in 1..n |-> MaskCatalogue[((off + i - 1) % Len(MaskCatalogue)) + 1]]

\* the scores (iou_prediction) of one answer, in tenths
PredScores(n, sv) ==
    [i \in 1..n |->
        CASE sv = 1 -> (CASE i = 1 -> 2 [] i = 2 -> 9 [] i = 3 -> 5 [] OTHER -> 1)
          [] sv = 2 -> (IF i <= 2 THEN 7 ELSE 1)
          [] OTHER -> i]

ScoreKinds == 1..3

\* the answers of the model: 3 masks (multimask_output=True) or more, read
\* from two places of the catalogue
MaskCounts == 3..MaxMasks
Offsets == {0, 3}

RECURSIVE argmaxFrom_lastMax(_, _, _)
\* a variant of argmaxFrom that moves to a later index on an equal score
argmaxFrom_lastMax(scores, i, best) ==
    IF i > Len(scores) THEN best
    ELSE argmaxFrom_lastMax(scores, i + 1,
                            IF scores[i] >= scores[best] THEN i ELSE best)

RECURSIVE argmaxFrom(_, _, _)
\* np.argmax: the first index holding the maximum (1-based here)
argmaxFrom(scores, i, best) ==
    IF i > Len(scores) THEN best
    ELSE argmaxFrom(scores, i + 1, IF scores[i] > scores[best] THEN i ELSE best)

argmax(scores) == argmaxFrom(scores, 2, 1)

----------------------------------------------------------------------------
(* Mask to polygons: the loop over points_list in clickManualSegBBox/Box *)

RECURSIVE shoelaceFrom(_, _)
shoelaceFrom(c, i) ==
    IF i > Len(c) THEN 0
    ELSE LET p == c[i]
             q == c[(i % Len(c)) + 1]
         IN (p[1] * q[2] - q[1] * p[2]) + shoelaceFrom(c, i + 1)

\* twice cv2.contourArea(points): Green's formula over the closed contour
contourArea2(c) ==
    LET a == shoelaceFrom(c, 1) IN IF a < 0 THEN -a ELSE a

\* a variant of skipContour that does not count the contours of the mask
skipContour_areaOnly(c, points_list) == contourArea2(c) < 2 * MinArea

\* the test that skips a contour: area < 100 and len(points_list) > 1
skipContour(c, points_list) ==
    contourArea2(c) < 2 * MinArea /\ Len(points_list) > 1

RECURSIVE convertFrom(_, _, _, _)
\* the inner loop from contour j on; tmp is tmp_sam_mask so far.  [ok, shapes]:
\* ok is FALSE when getMaxId() raised while a kept contour's Shape was built
convertFrom(points_list, j, labels, tmp) ==
    IF j > Len(points_list) THEN [ok |-> TRUE, shapes |-> tmp]
    ELSE IF skipContour(points_list[j], points_list)
         THEN convertFrom(points_list, j + 1, labels, tmp)
    ELSE LET g == getMaxId(labels)
         IN IF ~g.ok THEN [ok |-> FALSE, shapes |-> tmp]
            ELSE convertFrom(points_list, j + 1, labels,
                     Append(tmp, Shape("Object", "polygon", IntGid(g.val + 1),
                                       points_list[j])))

RECURSIVE proposalsFrom(_, _, _, _, _, _)
\* the outer loop from mask i on: [ok, sam_mask, sam_mask_proposal]
proposalsFrom(masks, i, target_idx, labels, sm, props) ==
    IF i > Len(masks) THEN [ok |-> TRUE, sam_mask |-> sm, sam_mask_proposal |-> props]
    ELSE LET r == convertFrom(masks[i], 1, labels, <<>>)
         IN IF ~r.ok
            THEN [ok |-> FALSE, sam_mask |-> sm, sam_mask_proposal |-> props]
            ELSE proposalsFrom(masks, i + 1, target_idx, labels,
                     IF i = target_idx THEN r.shapes ELSE sm,
                     Append(props, r.shapes))

----------------------------------------------------------------------------
(* The annotation files: saveLabels and loadAnno *)

OutDirs == {"output", "alt"}
FileNames == [dir : OutDirs, img : 1..NumImages]
NoFile == [exists |-> FALSE, shapes |-> <<>>]

\* self.category_list, read from categories.txt
category_list == <<"cat", "dog">>

\* int(label): [ok, val]; a label that is no integer literal raises ValueError
intOfLabel(label) ==
    CASE label = "0" -> [ok |-> TRUE, val |-> 0]
      [] label = "1" -> [ok |-> TRUE, val |-> 1]
      [] label = "7" -> [ok |-> TRUE, val |-> 7]
      [] label = "-1" -> [ok |-> TRUE, val |-> -1]
      [] OTHER -> [ok |-> FALSE, val |-> 0]

\* the try block of loadAnno: label = self.category_list[int(label)], with
\* Python's indexing (a negative index counts from the end); any exception
\* leaves the label as read
resolveLabel(label) ==
    LET t == intOfLabel(label)
        n == Len(category_list)
    IN IF ~t.ok THEN label
       ELSE IF 0 <= t.val /\ t.val < n THEN category_list[t.val + 1]
       ELSE IF -n <= t.val /\ t.val < 0 THEN category_list[n + t.val + 1]
       ELSE label

\* format_shape in saveLabels: group_id is written as str(s.group_id)
format_shape(s) ==
    [label |-> s.label, points |-> s.points, group_id |-> StrOfGid(s.group_id),
     shape_type |-> s.shape_type]

\* the file saveLabels writes for the label list
saveLabels(labels) ==
    [exists |-> TRUE, shapes |-> [i \in 1..Len(labels) |-> format_shape(labels[i])]]

RECURSIVE loadAnnoFrom_keepEmpty(_, _, _)
\* a variant of loadAnnoFrom without the test for an empty points array
loadAnnoFrom_keepEmpty(data, i, labels) ==
    IF i > Len(data) THEN labels
    ELSE loadAnnoFrom_keepEmpty(data, i + 1,
             Append(labels, Shape(resolveLabel(data[i].label), data[i].shape_type,
                                  data[i].group_id, data[i].points)))

RECURSIVE loadAnnoFrom(_, _, _)
\* the loop of loadAnno from shape i of the file on; labels is the list so far
loadAnnoFrom(data, i, labels) ==
    IF i > Len(data) THEN labels
    ELSE LET shape == data[i]
         IN IF shape.points = <<>>
            THEN loadAnnoFrom(data, i + 1, labels)
            ELSE loadAnnoFrom(data, i + 1,
                     Append(labels, Shape(resolveLabel(shape.label), shape.shape_type,
                                          shape.group_id, shape.points)))

\* the label list after loadAnno(filename) on an empty list
loadAnno(file) == loadAnnoFrom(file.shapes, 1, <<>>)

\* the polygon of scenario C
ScenarioC == << <<0, 0>>, <<0, 2>>, <<0, 4>>, <<0, 6>>, <<0, 26>> >>

\* an annotation file written by another tool: a shape without points, and a
\* polygon labelled by category index whose group_id is null
ExtFile ==
    [exists |-> TRUE,
     shapes |-> << [label |-> "tree", points |-> <<>>, group_id |-> NoneGid,
                    shape_type |-> "polygon"],
                   [label |-> "1", points |-> ScenarioC,
                    group_id |-> NoneGid, shape_type |-> "polygon"] >>]

\* the file a session of this program leaves after it loaded ExtFile and saved
SavedFile == saveLabels(loadAnno(ExtFile))

----------------------------------------------------------------------------
(* History *)

\* one more handler call, within the bound on the session's length
tick == steps < MaxSteps /\ steps' = steps + 1

EvOf(op) ==
    [op |-> op, n |-> 0, off |-> 0, sv |-> 0, label |-> "", gid |-> NoneGid,
     i |-> 0, sel |-> {}]

----------------------------------------------------------------------------
(* The state after construction *)

Init ==
    /\ labelList = <<>>
    /\ sam_mask = <<>>
    /\ sam_mask_proposal = <<>>
    /\ image_encoded_flag = FALSE
    /\ predictor = FALSE
    /\ class_on_flag = TRUE
    /\ img_list = <<>>
    /\ current_img_index = 0
    /\ current_img = 0
    /\ current_output_dir = "output"
    /\ current_output_filename = [dir |-> "output", img |-> 0]
    /\ save_enabled = FALSE
    /\ undo_enabled = FALSE
    /\ canvas_shapes = <<>>
    /\ shapesBackups = <<>>
    /\ undo_trail = <<>>
    /\ encoded = <<>>
    /\ \E first \in {NoFile, ExtFile}, second \in {NoFile, SavedFile} :
           files = [f \in FileNames |->
                       CASE f = [dir |-> "output", img |-> 1] -> first
                         [] f = [dir |-> "output", img |-> 2] -> second
                         [] OTHER -> NoFile]
    /\ crashed = "none"
    /\ ev = EvOf("init")
    /\ proposal_masks = <<>>
    /\ sam_mask_src = <<>>
    /\ steps = 0

----------------------------------------------------------------------------
(* The canvas and its edit history.  The Canvas class is not part of the     *)
(* source tree; its operations are modelled from the specification: every    *)
(* committed shape list is pushed as a snapshot, the history keeps the most  *)
(* recent NumBackups snapshots, and undo pops back to the snapshot before    *)
(* the current one.                                                          *)

\* a canvas that keeps one snapshot more
NumBackups_oneMore == 10 + 1

\* Canvas(..., num_backups=10)
NumBackups == 10

\* push(snapshot): appends; beyond NumBackups snapshots the oldest is evicted
storeShapes(backups, shapes) ==
    LET pushed == Append(backups, shapes)
    IN IF Len(pushed) > NumBackups
       THEN SubSeq(pushed, Len(pushed) - NumBackups + 1, Len(pushed))
       ELSE pushed

\* canvas.isShapeRestorable: a snapshot older than the current state is left
isShapeRestorable(backups) == Len(backups) >= 2

\* canvas.restoreShape(): a no-op on an exhausted history; otherwise the
\* snapshot of the current state is dropped and the one before it is popped
\* into canvas.shapes
restoreShape(shapes, backups) ==
    IF ~isShapeRestorable(backups)
    THEN [shapes |-> shapes, backups |-> backups]
    ELSE [shapes |-> backups[Len(backups) - 1],
          backups |-> SubSeq(backups, 1, Len(backups) - 2)]

----------------------------------------------------------------------------
(* Loading an image and saving *)

\* a loadImg that leaves image_encoded_flag as it is
loadImg_keepEncoding(img, dir, fs) ==
    IF img = 0
    THEN /\ crashed' = "AttributeError"
         /\ UNCHANGED <<labelList, canvas_shapes, shapesBackups, undo_trail, undo_enabled, current_output_filename, image_encoded_flag, encoded>>
    ELSE /\ crashed' = crashed
         /\ current_output_filename' = [dir |-> dir, img |-> img]
         /\ labelList' = LET f == fs[[dir |-> dir, img |-> img]]
                         IN IF f.exists THEN loadAnno(f) ELSE <<>>
         \* canvas.loadPixmap clears the shapes; loadAnno ends with
         \* canvas.loadShapes, which is skipped when the file is missing
         /\ canvas_shapes' = labelList'
         /\ shapesBackups' = IF fs[[dir |-> dir, img |-> img]].exists
                             THEN storeShapes(shapesBackups, labelList')
                             ELSE shapesBackups
         /\ undo_enabled' = undo_enabled
         /\ undo_trail' = <<>>
         /\ image_encoded_flag' = image_encoded_flag
         /\ encoded' = IF img = current_img THEN encoded ELSE <<>>

\* loadImg() with self.current_img = img and self.current_output_dir = dir, the
\* files being fs: cv2.imread('') is None, whose .shape raises AttributeError
loadImg(img, dir, fs) ==
    IF img = 0
    THEN /\ crashed' = "AttributeError"
         /\ UNCHANGED <<labelList, canvas_shapes, shapesBackups, undo_trail, undo_enabled, current_output_filename, image_encoded_flag, encoded>>
    ELSE /\ crashed' = crashed
         /\ current_output_filename' = [dir |-> dir, img |-> img]
         /\ labelList' = LET f == fs[[dir |-> dir, img |-> img]]
                         IN IF f.exists THEN loadAnno(f) ELSE <<>>
         \* canvas.loadPixmap clears the shapes; loadAnno ends with
         \* canvas.loadShapes, which is skipped when the file is missing
         /\ canvas_shapes' = labelList'
         /\ shapesBackups' = IF fs[[dir |-> dir, img |-> img]].exists
                             THEN storeShapes(shapesBackups, labelList')
                             ELSE shapesBackups
         /\ undo_enabled' = undo_enabled
         /\ undo_trail' = <<>>
         /\ image_encoded_flag' = FALSE
         /\ encoded' = IF img = current_img THEN encoded ELSE <<>>

\* the files after saveFile(): _saveFile writes only under a non-empty filename
filesAfterSave ==
    IF current_output_filename.img # 0
    THEN [files EXCEPT ![current_output_filename] = saveLabels(labelList)]
    ELSE files

\* the save action's state after saveFile(): setClean disables it after a write
saveEnabledAfterSave == IF current_output_filename.img # 0 THEN FALSE ELSE save_enabled

\* the save action (enabled only while self.actions.save is)
saveFile ==
    /\ crashed = "none"
    /\ tick
    /\ save_enabled
    /\ files' = filesAfterSave
    /\ save_enabled' = saveEnabledAfterSave
    /\ ev' = EvOf("other")
    /\ UNCHANGED <<labelList, canvas_shapes, shapesBackups, undo_trail, undo_enabled, sam_mask, sam_mask_proposal, proposal_masks, sam_mask_src, image_encoded_flag, encoded,
                   predictor, class_on_flag, img_list, current_img_index,
                   current_img, current_output_dir, current_output_filename, crashed>>

\* self.current_img_index = index; self.current_img = self.img_list[index];
\* self.loadImg(): indexing past the end of img_list raises IndexError
showImage(index, fs) ==
    /\ current_img_index' = index
    /\ IF index < Len(img_list)
       THEN /\ current_img' = img_list[index + 1]
            /\ loadImg(current_img', current_output_dir, fs)
       ELSE /\ crashed' = "IndexError"
            /\ UNCHANGED <<current_img, labelList, canvas_shapes, shapesBackups, undo_trail, undo_enabled, current_output_filename,
                           image_encoded_flag, encoded>>

clickButtonNext ==
    /\ crashed = "none"
    /\ tick
    /\ ev' = EvOf("clickButtonNext")
    /\ files' = IF save_enabled THEN filesAfterSave ELSE files
    /\ save_enabled' = IF save_enabled THEN saveEnabledAfterSave ELSE save_enabled
    /\ IF current_img_index < Len(img_list) - 1
       THEN showImage(current_img_index + 1, files')
       ELSE UNCHANGED <<current_img_index, current_img, labelList, canvas_shapes, shapesBackups, undo_trail, undo_enabled,
                        current_output_filename, image_encoded_flag, encoded, crashed>>
    /\ UNCHANGED <<sam_mask, sam_mask_proposal, proposal_masks, sam_mask_src, predictor, class_on_flag, img_list,
                   current_output_dir>>

clickButtonLast ==
    /\ crashed = "none"
    /\ tick
    /\ ev' = EvOf("clickButtonLast")
    /\ files' = IF save_enabled THEN filesAfterSave ELSE files
    /\ save_enabled' = IF save_enabled THEN saveEnabledAfterSave ELSE save_enabled
    /\ IF current_img_index > 0
       THEN showImage(current_img_index - 1, files')
       ELSE UNCHANGED <<current_img_index, current_img, labelList, canvas_shapes, shapesBackups, undo_trail, undo_enabled,
                        current_output_filename, image_encoded_flag, encoded, crashed>>
    /\ UNCHANGED <<sam_mask, sam_mask_proposal, proposal_masks, sam_mask_src, predictor, class_on_flag, img_list,
                   current_output_dir>>

\* the directories the dialog may return: '' (cancelled), one without images,
\* one holding NumImages images
clickFileChoose ==
    /\ crashed = "none"
    /\ tick
    /\ \E directory \in {"", "empty", "images"} :
        /\ ev' = EvOf("other")
        /\ IF directory = ""
           THEN UNCHANGED <<img_list, current_img_index, current_img, labelList, canvas_shapes, shapesBackups, undo_trail, undo_enabled,
                            current_output_filename, image_encoded_flag, encoded, crashed>>
           ELSE /\ img_list' = IF directory = "images"
                               THEN [i \in 1..NumImages |-> i] ELSE <<>>
                /\ IF Len(img_list') = 0
                   THEN UNCHANGED <<current_img_index, current_img, labelList, canvas_shapes, shapesBackups, undo_trail, undo_enabled,
                                    current_output_filename, image_encoded_flag, encoded,
                                    crashed>>
                   ELSE /\ current_img_index' = 0
                        /\ current_img' = img_list'[1]
                        /\ loadImg(current_img', current_output_dir, files)
    /\ UNCHANGED <<sam_mask, sam_mask_proposal, proposal_masks, sam_mask_src, predictor, class_on_flag,
                   current_output_dir, save_enabled, files>>

clickSaveChoose ==
    /\ crashed = "none"
    /\ tick
    /\ \E directory \in {""} \cup OutDirs :
        /\ ev' = EvOf("other")
        /\ IF directory = ""
           THEN UNCHANGED <<current_output_dir, labelList, canvas_shapes, shapesBackups, undo_trail, undo_enabled, current_output_filename,
                            image_encoded_flag, encoded, crashed>>
           ELSE /\ current_output_dir' = directory
                /\ loadImg(current_img, directory, files)
    /\ UNCHANGED <<sam_mask, sam_mask_proposal, proposal_masks, sam_mask_src, predictor, class_on_flag, img_list,
                   current_img_index, current_img, save_enabled, files>>

clickSwitchClass ==
    /\ crashed = "none"
    /\ tick
    /\ class_on_flag' = ~class_on_flag
    /\ ev' = EvOf("other")
    /\ UNCHANGED <<labelList, canvas_shapes, shapesBackups, undo_trail, undo_enabled, sam_mask, sam_mask_proposal, proposal_masks, sam_mask_src, image_encoded_flag, encoded,
                   predictor, img_list, current_img_index, current_img,
                   current_output_dir, current_output_filename, save_enabled, files,
                   crashed>>

\* the Load SAM action, disabled once it has run
clickLoadSAM ==
    /\ crashed = "none"
    /\ tick
    /\ ~predictor
    /\ predictor' = TRUE
    /\ ev' = EvOf("other")
    /\ UNCHANGED <<labelList, canvas_shapes, shapesBackups, undo_trail, undo_enabled, sam_mask, sam_mask_proposal, proposal_masks, sam_mask_src, image_encoded_flag, encoded,
                   class_on_flag, img_list, current_img_index, current_img,
                   current_output_dir, current_output_filename, save_enabled, files,
                   crashed>>

----------------------------------------------------------------------------
(* Prompted prediction *)

\* after the guard of clickManualSegBBox / clickManualSegBox: the answer has n
\* masks PredMasks(n, off) with scores PredScores(n, sv)
predict(n, off, sv) ==
    \* if self.image_encoded_flag == False: self.predictor.set_image(img)
    /\ image_encoded_flag' = TRUE
    /\ encoded' = IF image_encoded_flag THEN encoded ELSE Append(encoded, current_img)
    /\ IF n > NumButtons
       THEN \* show_proposals(masks, 0) indexes self.button_proposal_list[msk_idx]
            /\ crashed' = "IndexError"
            /\ UNCHANGED <<sam_mask, sam_mask_proposal, proposal_masks, sam_mask_src>>
       ELSE LET r == proposalsFrom(PredMasks(n, off), 1, argmax(PredScores(n, sv)),
                                   labelList, sam_mask, <<>>)
                done == Len(r.sam_mask_proposal)
                target_idx == argmax(PredScores(n, sv))
            IN /\ sam_mask' = r.sam_mask
               /\ sam_mask_proposal' = r.sam_mask_proposal
               /\ crashed' = IF r.ok THEN crashed ELSE "ValueError"
               /\ proposal_masks' = SubSeq(PredMasks(n, off), 1, done)
               /\ sam_mask_src' = IF target_idx <= done
                                  THEN <<PredMasks(n, off)[target_idx]>>
                                  ELSE sam_mask_src

\* a prompt handler whose guard does not look at self.predictor
promptHandler_anyModel(op) ==
    /\ crashed = "none"
    /\ tick
    /\ \/ /\ ev' = EvOf(op)
          /\ UNCHANGED <<sam_mask, sam_mask_proposal, proposal_masks, sam_mask_src, image_encoded_flag, encoded, crashed>>
       \/ /\ current_img # 0
          /\ \E n \in MaskCounts, off \in Offsets, sv \in ScoreKinds :
                /\ ev' = [EvOf(op) EXCEPT !.n = n, !.off = off, !.sv = sv]
                /\ predict(n, off, sv)
    /\ UNCHANGED <<labelList, canvas_shapes, shapesBackups, undo_trail, undo_enabled, predictor, class_on_flag, img_list, current_img_index,
                   current_img, current_output_dir, current_output_filename,
                   save_enabled, files>>

\* a handler of a prompt, op its name.  The first disjunct is the early return
\* (no predictor, no image, or no prompt on the canvas), the second the rest
promptHandler(op) ==
    /\ crashed = "none"
    /\ tick
    /\ \/ /\ ev' = EvOf(op)
          /\ UNCHANGED <<sam_mask, sam_mask_proposal, proposal_masks, sam_mask_src, image_encoded_flag, encoded, crashed>>
       \/ /\ predictor
          /\ current_img # 0
          /\ \E n \in MaskCounts, off \in Offsets, sv \in ScoreKinds :
                /\ ev' = [EvOf(op) EXCEPT !.n = n, !.off = off, !.sv = sv]
                /\ predict(n, off, sv)
    /\ UNCHANGED <<labelList, canvas_shapes, shapesBackups, undo_trail, undo_enabled, predictor, class_on_flag, img_list, current_img_index,
                   current_img, current_output_dir, current_output_filename,
                   save_enabled, files>>

\* the box prompt
clickManualSegBBox == promptHandler("predict")

\* the click prompt
clickManualSegBox == promptHandler("predict")

\* buttons whose test is one proposal too strict
choose_proposal_strict(i) ==
    /\ crashed = "none"
    /\ tick
    /\ sam_mask' = IF Len(sam_mask_proposal) > i
                   THEN sam_mask_proposal[i] ELSE sam_mask
    /\ sam_mask_src' = IF Len(sam_mask_proposal) > i
                       THEN <<proposal_masks[i]>> ELSE sam_mask_src
    /\ ev' = [EvOf("choose_proposal") EXCEPT !.i = i]
    /\ UNCHANGED <<labelList, canvas_shapes, shapesBackups, undo_trail, undo_enabled, sam_mask_proposal, proposal_masks, image_encoded_flag, encoded, predictor,
                   class_on_flag, img_list, current_img_index, current_img,
                   current_output_dir, current_output_filename, save_enabled, files,
                   crashed>>

\* choose_proposal1 .. choose_proposal4: button i
choose_proposal(i) ==
    /\ crashed = "none"
    /\ tick
    /\ sam_mask' = IF Len(sam_mask_proposal) > i - 1
                   THEN sam_mask_proposal[i] ELSE sam_mask
    /\ sam_mask_src' = IF Len(sam_mask_proposal) > i - 1
                       THEN <<proposal_masks[i]>> ELSE sam_mask_src
    /\ ev' = [EvOf("choose_proposal") EXCEPT !.i = i]
    /\ UNCHANGED <<labelList, canvas_shapes, shapesBackups, undo_trail, undo_enabled, sam_mask_proposal, proposal_masks, image_encoded_flag, encoded, predictor,
                   class_on_flag, img_list, current_img_index, current_img,
                   current_output_dir, current_output_filename, save_enabled, files,
                   crashed>>

cleanPrompt ==
    /\ crashed = "none"
    /\ tick
    /\ sam_mask' = <<>>
    /\ sam_mask_proposal' = <<>>
    /\ proposal_masks' = <<>>
    /\ sam_mask_src' = <<>>
    /\ ev' = EvOf("other")
    /\ UNCHANGED <<labelList, canvas_shapes, shapesBackups, undo_trail, undo_enabled, image_encoded_flag, encoded, predictor, class_on_flag, img_list,
                   current_img_index, current_img, current_output_dir,
                   current_output_filename, save_enabled, files, crashed>>

----------------------------------------------------------------------------
(* Accept: addSamMask *)

\* what self.labelDialog.popUp may return as (label, group_id): cancelled
\* (None, None), or a text with a group id that is an int or None
DialogResults ==
    { [label |-> PyNone, gid |-> NoneGid], [label |-> "", gid |-> IntGid(5)],
      [label |-> "cat", gid |-> NoneGid] }

\* if label == None: label = 'Object'
defaultLabel(label) == IF label = PyNone THEN "Object" ELSE label

\* if type(group_id) != int: group_id = self.getMaxId() + 1
defaultGroupId(gid, labels) ==
    IF gid.k # "int" THEN IntGid(getMaxId(labels).val + 1) ELSE gid

\* the shapes of self.sam_mask with label and group_id set
stamped(sm, label, gid) ==
    [j \in 1..Len(sm) |-> [sm[j] EXCEPT !.label = label, !.group_id = gid]]

\* an Accept that asks for a label whatever is selected
addSamMask_alwaysAsks ==
    /\ crashed = "none"
    /\ tick
    /\ predictor
    /\ Len(labelList) + Len(sam_mask) <= MaxShapes
    /\ IF TRUE
       THEN IF ~getMaxId(labelList).ok
            THEN /\ crashed' = "ValueError"
                 /\ ev' = EvOf("addSamMask")
                 /\ UNCHANGED <<labelList, canvas_shapes, shapesBackups, undo_trail, undo_enabled, sam_mask, sam_mask_proposal, proposal_masks, sam_mask_src, save_enabled>>
            ELSE \E xx \in IF class_on_flag
                           THEN DialogResults
                           ELSE {[label |-> "Object",
                                  gid |-> IntGid(getMaxId(labelList).val + 1)]} :
                    /\ ev' = [EvOf("addSamMask") EXCEPT !.label = xx.label,
                                                        !.gid = xx.gid,
                                                        !.n = Len(sam_mask)]
                    /\ labelList' = labelList \o
                           stamped(sam_mask, defaultLabel(xx.label),
                                   defaultGroupId(xx.gid, labelList))
                    /\ sam_mask' = <<>>
                    /\ sam_mask_proposal' = <<>>
                    /\ proposal_masks' = <<>>
                    /\ sam_mask_src' = <<>>
                    /\ canvas_shapes' = labelList'
                    /\ shapesBackups' = storeShapes(shapesBackups, labelList')
                    /\ undo_trail' = Append(undo_trail, labelList)
                    /\ undo_enabled' = undo_enabled
                    /\ save_enabled' = TRUE
                    /\ crashed' = crashed
       ELSE /\ ev' = EvOf("addSamMask")
            /\ sam_mask' = <<>>
            /\ sam_mask_proposal' = <<>>
            /\ proposal_masks' = <<>>
            /\ sam_mask_src' = <<>>
            /\ save_enabled' = TRUE
            /\ canvas_shapes' = labelList
            /\ shapesBackups' = storeShapes(shapesBackups, labelList)
            /\ undo_trail' = Append(undo_trail, labelList)
            /\ UNCHANGED <<labelList, undo_enabled, crashed>>
    /\ UNCHANGED <<image_encoded_flag, encoded, predictor, class_on_flag, img_list,
                   current_img_index, current_img, current_output_dir,
                   current_output_filename, files>>

\* the Accept action, enabled once the predictor is loaded; xx is the dialog's
\* answer, read only when a proposal is selected and class_on_flag is set
addSamMask ==
    /\ crashed = "none"
    /\ tick
    /\ predictor
    /\ Len(labelList) + Len(sam_mask) <= MaxShapes
    /\ IF Len(sam_mask) > 0
       THEN IF ~getMaxId(labelList).ok
            THEN /\ crashed' = "ValueError"
                 /\ ev' = EvOf("addSamMask")
                 /\ UNCHANGED <<labelList, canvas_shapes, shapesBackups, undo_trail, undo_enabled, sam_mask, sam_mask_proposal, proposal_masks, sam_mask_src, save_enabled>>
            ELSE \E xx \in IF class_on_flag
                           THEN DialogResults
                           ELSE {[label |-> "Object",
                                  gid |-> IntGid(getMaxId(labelList).val + 1)]} :
                    /\ ev' = [EvOf("addSamMask") EXCEPT !.label = xx.label,
                                                        !.gid = xx.gid,
                                                        !.n = Len(sam_mask)]
                    /\ labelList' = labelList \o
                           stamped(sam_mask, defaultLabel(xx.label),
                                   defaultGroupId(xx.gid, labelList))
                    /\ sam_mask' = <<>>
                    /\ sam_mask_proposal' = <<>>
                    /\ proposal_masks' = <<>>
                    /\ sam_mask_src' = <<>>
                    /\ canvas_shapes' = labelList'
                    /\ shapesBackups' = storeShapes(shapesBackups, labelList')
                    /\ undo_trail' = Append(undo_trail, labelList)
                    /\ undo_enabled' = undo_enabled
                    /\ save_enabled' = TRUE
                    /\ crashed' = crashed
       ELSE /\ ev' = EvOf("addSamMask")
            /\ sam_mask' = <<>>
            /\ sam_mask_proposal' = <<>>
            /\ proposal_masks' = <<>>
            /\ sam_mask_src' = <<>>
            /\ save_enabled' = TRUE
            /\ canvas_shapes' = labelList
            /\ shapesBackups' = storeShapes(shapesBackups, labelList)
            /\ undo_trail' = Append(undo_trail, labelList)
            /\ UNCHANGED <<labelList, undo_enabled, crashed>>
    /\ UNCHANGED <<image_encoded_flag, encoded, predictor, class_on_flag, img_list,
                   current_img_index, current_img, current_output_dir,
                   current_output_filename, files>>

----------------------------------------------------------------------------
(* Point reduction: reducePoint and get_min_dis.  The source compares        *)
(* d = sqrt(d2) with min_dis * 1.5; the model keeps the squares d2 and       *)
(* min_dis^2 and compares 4 * d2 with 9 * min_dis^2, which is the same test. *)

\* the square of the distance math.sqrt((p.x - q.x) ** 2 + (p.y - q.y) ** 2)
dist2(p, q) == (p[1] - q[1]) * (p[1] - q[1]) + (p[2] - q[2]) * (p[2] - q[2])

RECURSIVE minDisFrom(_, _, _)
\* the loop of get_min_dis from point i on (points_new[-1] is points[i - 1])
minDisFrom(points, i, min2) ==
    IF i > Len(points) THEN min2
    ELSE minDisFrom(points, i + 1, Min(min2, dist2(points[i], points[i - 1])))

\* get_min_dis(points), squared: min_dis starts at 10000
get_min_dis2(points) ==
    IF Len(points) >= 2 THEN minDisFrom(points, 2, Sentinel * Sentinel)
    ELSE Sentinel * Sentinel

\* a variant of farEnough that also holds at exactly 1.5 times min_dis
farEnough_orEqual(d2, min2) == 4 * d2 >= 9 * min2

\* d > (min_dis * 1.5)
farEnough(d2, min2) == 4 * d2 > 9 * min2

RECURSIVE reduceFrom_prevInput(_, _, _, _)
\* a variant of reduceFrom that measures from the previous input point
reduceFrom_prevInput(points, i, points_new, min2) ==
    IF i > Len(points) THEN points_new
    ELSE reduceFrom_prevInput(points, i + 1,
             IF farEnough(dist2(points[i], points[i - 1]), min2)
             THEN Append(points_new, points[i]) ELSE points_new,
             min2)

RECURSIVE reduceFrom(_, _, _, _)
\* the loop over range(1, len(points)) from point i on
reduceFrom(points, i, points_new, min2) ==
    IF i > Len(points) THEN points_new
    ELSE reduceFrom(points, i + 1,
             IF farEnough(dist2(points[i], points_new[Len(points_new)]), min2)
             THEN Append(points_new, points[i]) ELSE points_new,
             min2)

\* a variant of simplify that starts from the last point
simplify_fromLast(points) ==
    reduceFrom(points, 2, <<points[Len(points)]>>, get_min_dis2(points))

\* shape['points'] after the first loop of reducePoint (points is not empty)
simplify(points) == reduceFrom(points, 2, <<points[1]>>, get_min_dis2(points))

RECURSIVE pick(_, _, _, _)
\* the items of labels from i on whose being selected equals want, in order
pick(labels, sel, want, i) ==
    IF i > Len(labels) THEN <<>>
    ELSE IF (i \in sel) = want
         THEN <<labels[i]>> \o pick(labels, sel, want, i + 1)
         ELSE pick(labels, sel, want, i + 1)

\* a Reduce Points that leaves every shape at its place in the list
reducePoint_inPlace ==
    /\ crashed = "none"
    /\ tick
    /\ \E sel \in SUBSET (1..Len(labelList)) :
        LET shapes == pick(labelList, sel, TRUE, 1)
            rest == pick(labelList, sel, FALSE, 1)
        IN /\ ev' = [EvOf("reducePoint") EXCEPT !.sel = sel]
           /\ IF \E j \in 1..Len(shapes) : shapes[j].points = <<>>
              THEN \* points[0] raises IndexError, after remLabels
                   /\ labelList' = rest
                   /\ crashed' = "IndexError"
                   /\ UNCHANGED <<save_enabled, canvas_shapes, shapesBackups, undo_trail>>
              ELSE /\ labelList' =
                        [j \in 1..Len(labelList) |->
                            IF j \in sel
                            THEN Shape(labelList[j].label, labelList[j].shape_type,
                                       labelList[j].group_id,
                                       simplify(labelList[j].points))
                            ELSE labelList[j]]
                   /\ canvas_shapes' = labelList'
                   /\ shapesBackups' = storeShapes(shapesBackups, labelList')
                   /\ undo_trail' = Append(undo_trail, labelList)
                   /\ save_enabled' = TRUE
                   /\ crashed' = crashed
    /\ UNCHANGED <<sam_mask, sam_mask_proposal, proposal_masks, sam_mask_src, image_encoded_flag, encoded, predictor,
                   class_on_flag, img_list, current_img_index, current_img,
                   current_output_dir, current_output_filename, files,
                   undo_enabled>>

\* the Reduce Points action; sel is the selection of the label list
reducePoint ==
    /\ crashed = "none"
    /\ tick
    /\ \E sel \in SUBSET (1..Len(labelList)) :
        LET shapes == pick(labelList, sel, TRUE, 1)
            rest == pick(labelList, sel, FALSE, 1)
        IN /\ ev' = [EvOf("reducePoint") EXCEPT !.sel = sel]
           /\ IF \E j \in 1..Len(shapes) : shapes[j].points = <<>>
              THEN \* points[0] raises IndexError, after remLabels
                   /\ labelList' = rest
                   /\ crashed' = "IndexError"
                   /\ UNCHANGED <<save_enabled, canvas_shapes, shapesBackups, undo_trail>>
              ELSE /\ labelList' = rest \o
                        [j \in 1..Len(shapes) |->
                            Shape(shapes[j].label, shapes[j].shape_type,
                                  shapes[j].group_id, simplify(shapes[j].points))]
                   /\ canvas_shapes' = labelList'
                   /\ shapesBackups' = storeShapes(shapesBackups, labelList')
                   /\ undo_trail' = Append(undo_trail, labelList)
                   /\ save_enabled' = TRUE
                   /\ crashed' = crashed
    /\ UNCHANGED <<sam_mask, sam_mask_proposal, proposal_masks, sam_mask_src, image_encoded_flag, encoded, predictor,
                   class_on_flag, img_list, current_img_index, current_img,
                   current_output_dir, current_output_filename, files,
                   undo_enabled>>

----------------------------------------------------------------------------
(* Deleting, duplicating and undoing.  The selection is the handler's input; *)
(* the delete and duplicate actions are enabled while it is not empty.       *)

\* an undo action that stays enabled
undoEnabledAfter_always(backups) == TRUE

\* self.actions.undo.setEnabled(self.canvas.isShapeRestorable), in setDirty()
\* and at the end of undoShapeEdit()
undoEnabledAfter(backups) == isShapeRestorable(backups)

\* setDirty(): undo follows canvas.isShapeRestorable, save is enabled
deleteSelectedShape ==
    /\ crashed = "none"
    /\ tick
    /\ \E sel \in (SUBSET (1..Len(canvas_shapes))) \ {{}} :
        /\ ev' = [EvOf("deleteSelectedShape") EXCEPT !.sel = sel]
        \* canvas.deleteSelected() removes the selection and pushes a snapshot
        /\ canvas_shapes' = pick(canvas_shapes, sel, FALSE, 1)
        /\ shapesBackups' = storeShapes(shapesBackups, canvas_shapes')
        /\ undo_trail' = Append(undo_trail, labelList)
        \* remLabels(deleted)
        /\ labelList' = pick(labelList, sel, FALSE, 1)
    /\ undo_enabled' = undoEnabledAfter(shapesBackups')
    /\ save_enabled' = TRUE
    /\ UNCHANGED <<sam_mask, sam_mask_proposal, proposal_masks, sam_mask_src, image_encoded_flag, encoded, predictor,
                   class_on_flag, img_list, current_img_index, current_img,
                   current_output_dir, current_output_filename, files, crashed>>

duplicateSelectedShape ==
    /\ crashed = "none"
    /\ tick
    /\ \E sel \in (SUBSET (1..Len(canvas_shapes))) \ {{}} :
        LET added_shapes == pick(canvas_shapes, sel, TRUE, 1)
        IN /\ Len(canvas_shapes) + Len(added_shapes) <= MaxShapes
           /\ ev' = [EvOf("duplicateSelectedShape") EXCEPT !.sel = sel]
           \* canvas.duplicateSelectedShapes() appends the copies and pushes
           /\ canvas_shapes' = canvas_shapes \o added_shapes
           /\ shapesBackups' = storeShapes(shapesBackups, canvas_shapes')
           /\ undo_trail' = Append(undo_trail, labelList)
           \* addLabel(shape) for each copy
           /\ labelList' = labelList \o added_shapes
    /\ undo_enabled' = undoEnabledAfter(shapesBackups')
    /\ save_enabled' = TRUE
    /\ UNCHANGED <<sam_mask, sam_mask_proposal, proposal_masks, sam_mask_src, image_encoded_flag, encoded, predictor,
                   class_on_flag, img_list, current_img_index, current_img,
                   current_output_dir, current_output_filename, files, crashed>>

\* a request to undo (menu entry or shortcut): the action starts disabled
\* (enabled=False) and is set by setDirty and by the previous undo
undoShapeEdit ==
    /\ crashed = "none"
    /\ tick
    /\ ev' = EvOf("undoShapeEdit")
    /\ IF undo_enabled
       THEN LET restored == restoreShape(canvas_shapes, shapesBackups)
            IN \* labelList.clear(); loadShapes(canvas.shapes), which ends
               \* with canvas.loadShapes and so pushes the restored state
               /\ labelList' = restored.shapes
               /\ canvas_shapes' = restored.shapes
               /\ shapesBackups' = storeShapes(restored.backups, restored.shapes)
               /\ undo_enabled' = undoEnabledAfter(shapesBackups')
               /\ undo_trail' = IF undo_trail = <<>> THEN <<>>
                                ELSE SubSeq(undo_trail, 1, Len(undo_trail) - 1)
       ELSE \* a disabled action is not triggered
            UNCHANGED <<labelList, canvas_shapes, shapesBackups, undo_trail, undo_enabled>>
    /\ UNCHANGED <<sam_mask, sam_mask_proposal, proposal_masks, sam_mask_src, image_encoded_flag, encoded, predictor,
                   class_on_flag, img_list, current_img_index, current_img,
                   current_output_dir, current_output_filename, files, crashed,
                   save_enabled>>

----------------------------------------------------------------------------
(* The program *)

Next ==
    \/ clickLoadSAM
    \/ clickFileChoose
    \/ clickSaveChoose
    \/ clickButtonNext
    \/ clickButtonLast
    \/ clickSwitchClass
    \/ clickManualSegBBox
    \/ clickManualSegBox
    \/ \E i \in 1..NumButtons : choose_proposal(i)
    \/ addSamMask
    \/ cleanPrompt
    \/ reducePoint
    \/ deleteSelectedShape
    \/ duplicateSelectedShape
    \/ undoShapeEdit
    \/ saveFile

Spec == Init /\ [][Next]_vars

----------------------------------------------------------------------------
(* Point reduction on its own: a session whose AnnotationSet holds one      *)
(* polygon, scenario C or any sequence of 1..MaxPoints points of PointSet,  *)
(* and whose only operation is Reduce Points.  PointSet has points on a     *)
(* line, one off it and one farther than 1.5 * 10000 from the rest.  No     *)
(* distance between two of its points is an irrational number that is 1.5   *)
(* times another (or 15000), where the code's comparison of rounded square  *)
(* roots could differ from the comparison of squares made here.             *)

PointSet ==
    { <<0, 0>>, <<0, 2>>, <<0, 4>>, <<0, 6>>, <<0, 26>>, <<3, 4>>, <<0, 15001>> }

RECURSIVE SeqsUpTo(_)
\* the sequences of 1..n points of PointSet
SeqsUpTo(n) ==
    IF n = 0 THEN {}
    ELSE [1..n -> PointSet] \cup SeqsUpTo(n - 1)

InitReduce ==
    /\ \E points \in SeqsUpTo(MaxPoints) \cup {ScenarioC} :
          labelList = <<Shape("Object", "polygon", IntGid(0), points)>>
    /\ sam_mask = <<>>
    /\ sam_mask_proposal = <<>>
    /\ image_encoded_flag = FALSE
    /\ predictor = FALSE
    /\ class_on_flag = TRUE
    /\ img_list = <<1>>
    /\ current_img_index = 0
    /\ current_img = 1
    /\ current_output_dir = "output"
    /\ current_output_filename = [dir |-> "output", img |-> 1]
    /\ save_enabled = FALSE
    /\ undo_enabled = FALSE
    /\ canvas_shapes = labelList
    /\ shapesBackups = <<labelList>>
    /\ undo_trail = <<>>
    /\ encoded = <<>>
    /\ files = [f \in FileNames |-> NoFile]
    /\ crashed = "none"
    /\ ev = EvOf("init")
    /\ proposal_masks = <<>>
    /\ sam_mask_src = <<>>
    /\ steps = 0

NextReduce == reducePoint

SpecReduce == InitReduce /\ [][NextReduce]_vars

(* Editing sessions: the model is loaded, image 1 of a directory of          *)
(* NumImages images is open with its annotation file loaded, and either      *)
(* nothing was edited yet or the first shape has been duplicated and the     *)
(* copy deleted in turn until the edit history is full.  A box prompt may    *)
(* have been answered since, its proposal waiting to be accepted.            *)

\* the label list after loading the annotation file of image 1
Loaded == loadAnno(ExtFile)

\* the label list after the i-th load or edit of the session
EditedList(i) == IF i % 2 = 1 THEN Loaded ELSE Loaded \o Loaded

\* the answer to the box prompt of the session: three masks, the last one
\* scored highest
Answered(labels) ==
    proposalsFrom(PredMasks(3, 3), 1, argmax(PredScores(3, 3)), labels, <<>>, <<>>)

InitUndo ==
    /\ \E k \in {1, NumBackups} :
          /\ shapesBackups = [i \in 1..k |-> EditedList(i)]
          /\ undo_trail = [i \in 1..(k - 1) |-> EditedList(i)]
          /\ labelList = EditedList(k)
          /\ canvas_shapes = EditedList(k)
          /\ undo_enabled = (k >= 2)
          /\ save_enabled = (k >= 2)
    /\ \E prompted \in BOOLEAN :
          /\ sam_mask = IF prompted THEN Answered(labelList).sam_mask ELSE <<>>
          /\ sam_mask_proposal = IF prompted THEN Answered(labelList).sam_mask_proposal
                                 ELSE <<>>
          /\ proposal_masks = IF prompted THEN PredMasks(3, 3) ELSE <<>>
          /\ sam_mask_src = IF prompted THEN <<PredMasks(3, 3)[3]>> ELSE <<>>
          /\ image_encoded_flag = prompted
          /\ encoded = IF prompted THEN <<1>> ELSE <<>>
    /\ predictor = TRUE
    /\ class_on_flag = TRUE
    /\ img_list = [i \in 1..NumImages |-> i]
    /\ current_img_index = 0
    /\ current_img = 1
    /\ current_output_dir = "output"
    /\ current_output_filename = [dir |-> "output", img |-> 1]
    /\ files = [f \in FileNames |->
                  IF f = [dir |-> "output", img |-> 1] THEN ExtFile ELSE NoFile]
    /\ crashed = "none"
    /\ ev = EvOf("init")
    /\ steps = 0

NextUndo ==
    \/ deleteSelectedShape
    \/ duplicateSelectedShape
    \/ reducePoint
    \/ addSamMask
    \/ undoShapeEdit
    \/ clickButtonNext

SpecUndo == InitUndo /\ [][NextUndo]_vars

(* Loading sessions: the annotation file of image 1 was written by another   *)
(* tool, with labels that are category indices, other numbers or names.      *)

\* the labels of the shapes in such a file
LabelSet == {"0", "1", "7", "-1", "cat"}

\* the shapes of such a file, with and without points
FileShapes ==
    {[label |-> l, points |-> p, group_id |-> NoneGid, shape_type |-> "polygon"] :
        l \in LabelSet, p \in {<<>>, ScenarioC}}

\* the files of up to MaxShapes shapes
AnnoFiles ==
    {[exists |-> TRUE, shapes |-> sh] :
        sh \in UNION {[1..m -> FileShapes] : m \in 0..MaxShapes}}

InitLoad ==
    /\ labelList = <<>>
    /\ sam_mask = <<>>
    /\ sam_mask_proposal = <<>>
    /\ image_encoded_flag = FALSE
    /\ predictor = FALSE
    /\ class_on_flag = TRUE
    /\ img_list = <<>>
    /\ current_img_index = 0
    /\ current_img = 0
    /\ current_output_dir = "output"
    /\ current_output_filename = [dir |-> "output", img |-> 0]
    /\ save_enabled = FALSE
    /\ undo_enabled = FALSE
    /\ canvas_shapes = <<>>
    /\ shapesBackups = <<>>
    /\ undo_trail = <<>>
    /\ encoded = <<>>
    /\ \E first \in AnnoFiles :
           files = [f \in FileNames |->
                       IF f = [dir |-> "output", img |-> 1] THEN first ELSE NoFile]
    /\ crashed = "none"
    /\ ev = EvOf("init")
    /\ proposal_masks = <<>>
    /\ sam_mask_src = <<>>
    /\ steps = 0

NextLoad ==
    \/ clickFileChoose
    \/ clickSaveChoose
    \/ clickButtonNext
    \/ clickButtonLast

SpecLoad == InitLoad /\ [][NextLoad]_vars

----------------------------------------------------------------------------
(* The claims.  An accept step is a step with ev'.op = "addSamMask"; the    *)
(* unprimed variables are the state the handler started in.                 *)

\* the points of each shape of a shape list
PointsOf(shapes) == [j \in 1..Len(shapes) |-> shapes[j].points]

\* the integer group ids of the shapes whose group id is not None
IntegerIds(labels) ==
    {labels[j].group_id.v : j \in {k \in 1..Len(labels) :
                                     labels[k].group_id.k \in {"int", "str"}}}

\* 1 + the largest group id that is not None, 0 when there is none
NextFreeId(labels) ==
    IF IntegerIds(labels) = {} THEN 0
    ELSE 1 + (CHOOSE m \in IntegerIds(labels) : \A x \in IntegerIds(labels) : x <= m)

\* C1: in every state of a running session nextGroupId() is defined and is
\* 1 + the largest group id in the AnnotationSet that is not None, 0 when the
\* set is empty or every group id is None.
C1_NextGroupId ==
    crashed = "none" =>
        /\ getMaxId(labelList).ok
        /\ getMaxId(labelList).val + 1 = NextFreeId(labelList)

\* C2: an accept of a non-empty selection returns and appends the selected
\* shapes, all with one group id: the dialog's when it is an integer, else
\* nextGroupId() of the AnnotationSet the accept started with.
C2_CommitGroupId ==
    [][(ev'.op = "addSamMask" /\ Len(sam_mask) > 0) =>
          LET gid == IF class_on_flag /\ ev'.gid.k = "int" THEN ev'.gid
                     ELSE IntGid(NextFreeId(labelList))
          IN /\ crashed' = "none"
             /\ Len(labelList') = Len(labelList) + Len(sam_mask)
             /\ SubSeq(labelList', 1, Len(labelList)) = labelList
             /\ \A j \in 1..Len(sam_mask) :
                   /\ labelList'[Len(labelList) + j].group_id = gid
                   /\ labelList'[Len(labelList) + j].points = sam_mask[j].points
      ]_vars

\* C3: every shape an accept commits is labelled "Object" when class_on_flag
\* is false or the dialog's label is empty or None, else the dialog's label.
C3_CommitLabel ==
    [][ev'.op = "addSamMask" =>
          \A j \in (Len(labelList) + 1)..Len(labelList') :
              labelList'[j].label =
                  IF ~class_on_flag \/ ev'.label \in {"", PyNone}
                  THEN "Object" ELSE ev'.label
      ]_vars

\* the contours the filter is to keep: the only contour of a mask whatever
\* its area, else the contours whose area is at least MinArea, in order
KeptContours(mask) ==
    IF Len(mask) = 1 THEN mask
    ELSE SelectSeq(mask, LAMBDA c : contourArea2(c) >= 2 * MinArea)

\* the masks of the last prediction, while ev is that prediction
LastMasks == PredMasks(ev.n, ev.off)

\* C4: the shapes of every converted mask of a prediction are its contours
\* after the filter, one shape per contour: a mask with one contour keeps it
\* whatever its area, a mask with several keeps those of area >= 100; a
\* prediction that returns converts every mask.
C4_ContourFilter ==
    (ev.op = "predict" /\ ev.n > 0 /\ crashed # "IndexError") =>
        /\ crashed = "none" => Len(sam_mask_proposal) = ev.n
        /\ Len(sam_mask_proposal) <= ev.n
        /\ \A i \in 1..Len(sam_mask_proposal) :
              PointsOf(sam_mask_proposal[i]) = KeptContours(LastMasks[i])

\* a prediction returned proposals of a mask with one contour below the
\* threshold (kept), of a mask whose contours are all below it (none kept)
\* and of a mask with contours on both sides of it (some kept)
C4_Witness ==
    /\ ev.op = "predict" /\ ev.n > 0 /\ crashed = "none"
    /\ \E i \in 1..ev.n :
          /\ Len(LastMasks[i]) = 1
          /\ contourArea2(LastMasks[i][1]) < 2 * MinArea
          /\ Len(sam_mask_proposal[i]) = 1
    /\ \E i \in 1..ev.n : Len(LastMasks[i]) > 1 /\ sam_mask_proposal[i] = <<>>
    /\ \E i \in 1..ev.n :
          /\ Len(sam_mask_proposal[i]) > 0
          /\ Len(sam_mask_proposal[i]) < Len(LastMasks[i])

\* C5: an accept whose selected proposal was converted from a mask with at
\* least one contour appends at least one shape to the AnnotationSet.
C5_Contributes ==
    [][(ev'.op = "addSamMask" /\ sam_mask_src # <<>> /\ Len(sam_mask_src[1]) >= 1)
          => Len(labelList') > Len(labelList)]_vars

\* the index numpy.argmax is to return: where the largest score first occurs
FirstLargest(scores) ==
    CHOOSE a \in 1..Len(scores) :
        /\ \A j \in 1..Len(scores) : scores[j] <= scores[a]
        /\ \A j \in 1..(a - 1) : scores[j] < scores[a]

\* C6: after every prediction that returns, sam_mask is the proposal at
\* argmax(scores) taken over the whole score vector, the shapes of that mask.
C6_DefaultSelection ==
    (ev.op = "predict" /\ ev.n > 0 /\ crashed = "none") =>
        LET a == FirstLargest(PredScores(ev.n, ev.sv))
        IN /\ sam_mask = sam_mask_proposal[a]
           /\ PointsOf(sam_mask) = KeptContours(LastMasks[a])

\* scenario B: scores [0.2, 0.9, 0.5] pre-select the second of three masks
C6_Witness ==
    /\ ev.op = "predict" /\ crashed = "none"
    /\ ev.n = 3 /\ ev.sv = 1 /\ ev.off = 0
    /\ PointsOf(sam_mask) = <<cDot>>
    /\ sam_mask = sam_mask_proposal[2]
    /\ sam_mask # sam_mask_proposal[1]

\* C7: sam_mask_proposal never holds more than 4 proposals, and a prediction
\* of more than 4 masks returns with the conversions of the first 4 of them.
C7_Truncated ==
    /\ Len(sam_mask_proposal) <= NumButtons
    /\ (ev.op = "predict" /\ ev.n > NumButtons) =>
          /\ crashed = "none"
          /\ Len(sam_mask_proposal) = NumButtons
          /\ \A i \in 1..NumButtons :
                PointsOf(sam_mask_proposal[i]) = KeptContours(LastMasks[i])

\* C8: the shapes an accept commits are those of one of the first 4 proposals
\* of the latest prediction; a prediction whose best score is at the fifth
\* mask or later returns with nothing pre-selected, and an accept right after
\* it commits nothing.
C8_FirstFour ==
    [][/\ (ev'.op = "addSamMask" /\ Len(labelList') > Len(labelList)) =>
             \E i \in 1..Min(NumButtons, Len(sam_mask_proposal)) :
                 PointsOf(SubSeq(labelList', Len(labelList) + 1, Len(labelList')))
                     = PointsOf(sam_mask_proposal[i])
       /\ (ev'.op = "predict" /\ ev'.n > 0
             /\ FirstLargest(PredScores(ev'.n, ev'.sv)) > NumButtons) =>
             crashed' = "none" /\ sam_mask' = <<>>
       /\ (ev.op = "predict" /\ ev.n > 0 /\ ev'.op = "addSamMask"
             /\ FirstLargest(PredScores(ev.n, ev.sv)) > NumButtons) =>
             labelList' = labelList /\ crashed' = "none"
      ]_vars

\* C9: every shape of the AnnotationSet has at least one point, whether it
\* was loaded from a file, committed by an accept or left by point reduction.
C9_NoEmptyShape ==
    \A j \in 1..Len(labelList) : Len(labelList[j].points) >= 1

\* the file of the current image holds a shape without points beside others,
\* and the AnnotationSet is what loadAnno made of it
C9_Witness ==
    /\ crashed = "none"
    /\ current_output_filename.img # 0
    /\ files[current_output_filename].exists
    /\ \E j \in 1..Len(files[current_output_filename].shapes) :
          files[current_output_filename].shapes[j].points = <<>>
    /\ Len(labelList) >= 1
    /\ Len(labelList) < Len(files[current_output_filename].shapes)
    /\ ev.op = "other"

\* the square of minGap as stated: the least distance between consecutive
\* points (of two points or more)
MinGap2(points) ==
    LET gaps == {dist2(points[i], points[i + 1]) : i \in 1..(Len(points) - 1)}
    IN CHOOSE g \in gaps : \A h \in gaps : g <= h

\* the square of minGap as computed: never above Sentinel
CappedMinGap2(points) ==
    IF Len(points) >= 2 THEN Min(MinGap2(points), Sentinel * Sentinel)
    ELSE Sentinel * Sentinel

\* K is the set of indices of points a forward pass keeps when the square of
\* minGap is gap2: index 1, and each later index whose point is farther than
\* 1.5 * minGap from the point of the nearest kept index before it
IsKeptSet(points, K, gap2) ==
    /\ 1 \in K
    /\ \A i \in 2..Len(points) :
          LET before == {k \in K : k < i}
              last == CHOOSE k \in before : \A m \in before : m <= k
          IN (i \in K) <=> (4 * dist2(points[i], points[last]) > 9 * gap2)

RECURSIVE Restrict(_, _, _)
\* the points of the indices in K from index i on, in order
Restrict(points, K, i) ==
    IF i > Len(points) THEN <<>>
    ELSE (IF i \in K THEN <<points[i]>> ELSE <<>>) \o Restrict(points, K, i + 1)

\* result is what the forward pass keeps of points when the square of minGap
\* is gap2
IsSimplified(points, result, gap2) ==
    \E K \in SUBSET (1..Len(points)) :
        IsKeptSet(points, K, gap2) /\ result = Restrict(points, K, 1)

\* the selected shapes of a Reduce Points step in order, and the others
Reduced == pick(labelList, ev'.sel, TRUE, 1)
NotReduced == pick(labelList, ev'.sel, FALSE, 1)

\* C10 as stated: Reduce Points leaves of each selected shape points[0] and
\* the points farther than 1.5 * minGap from the last kept point, minGap the
\* least distance between consecutive points; scenario C leaves
\* [(0,0), (0,6), (0,26)].
C10_SimplifyAsStated ==
    [][(ev'.op = "reducePoint" /\ crashed' = "none") =>
          /\ Len(labelList') = Len(labelList)
          /\ \A j \in 1..Len(Reduced) :
                LET points == Reduced[j].points
                    result == labelList'[Len(NotReduced) + j].points
                IN /\ Len(points) >= 2 => IsSimplified(points, result, MinGap2(points))
                   /\ Len(points) < 2 => result = points
                   /\ points = ScenarioC =>
                         result = << <<0, 0>>, <<0, 6>>, <<0, 26>> >>
      ]_vars

\* C10: Reduce Points leaves of each selected shape points[0] and the points
\* farther than 1.5 * minGap from the last kept point, minGap the least
\* distance between consecutive points or 10000 if that is less; scenario C
\* leaves [(0,0), (0,4), (0,26)].
C10_Simplify ==
    [][(ev'.op = "reducePoint" /\ crashed' = "none") =>
          /\ Len(labelList') = Len(labelList)
          /\ \A j \in 1..Len(Reduced) :
                LET points == Reduced[j].points
                    result == labelList'[Len(NotReduced) + j].points
                IN /\ IsSimplified(points, result, CappedMinGap2(points))
                   /\ points = ScenarioC =>
                         result = << <<0, 0>>, <<0, 4>>, <<0, 26>> >>
      ]_vars

\* Reduce Points has just left what it leaves of scenario C
C10_Witness ==
    /\ ev.op = "reducePoint" /\ ev.sel = {1} /\ crashed = "none"
    /\ steps = 1
    /\ Len(labelList) = 1
    /\ labelList[1].points = << <<0, 0>>, <<0, 4>>, <<0, 26>> >>

\* C11: what Reduce Points leaves of a selected shape of >= 1 points is a
\* subsequence of its points in their order that begins with the first of
\* them, and so is not longer than the input.
C11_Subsequence ==
    [][(ev'.op = "reducePoint" /\ crashed' = "none") =>
          \A j \in 1..Len(Reduced) :
              LET points == Reduced[j].points
                  result == labelList'[Len(NotReduced) + j].points
              IN /\ \E K \in SUBSET (1..Len(points)) :
                        1 \in K /\ result = Restrict(points, K, 1)
                 /\ result[1] = points[1]
                 /\ Len(result) <= Len(points)
      ]_vars

\* Reduce Points has left two points that it would not leave as they are,
\* so they are what is left of a longer polygon
C11_Witness ==
    /\ ev.op = "reducePoint" /\ ev.sel = {1} /\ crashed = "none"
    /\ steps = 1
    /\ Len(labelList) = 1
    /\ labelList[1].points = << <<3, 4>>, <<0, 0>> >>

\* C12: the forward pass applied to what it left, with the min_dis of the
\* first pass, leaves it unchanged.
C12_Idempotent ==
    [][(ev'.op = "reducePoint" /\ crashed' = "none") =>
          \A j \in 1..Len(Reduced) :
              LET points == Reduced[j].points
                  result == labelList'[Len(NotReduced) + j].points
              IN reduceFrom(result, 2, <<result[1]>>, get_min_dis2(points)) = result
      ]_vars

\* Reduce Points has dropped the middle one of three points
C12_Witness ==
    /\ ev.op = "reducePoint" /\ ev.sel = {1} /\ crashed = "none"
    /\ steps = 1
    /\ Len(labelList) = 1
    /\ labelList[1].points = << <<0, 0>>, <<0, 6>> >>

----------------------------------------------------------------------------
(* The edit history *)

\* the handlers that commit a label list and push one snapshot of it
PushOps == {"addSamMask", "reducePoint", "deleteSelectedShape",
            "duplicateSelectedShape"}

\* C13: the edit history never holds more than 10 snapshots, and a commit
\* made while it holds 10 evicts the oldest one: afterwards the history is
\* the 9 most recent snapshots, in order, followed by the committed list
C13_HistoryDepth ==
    [][/\ Len(shapesBackups) <= 10
       /\ Len(shapesBackups') <= 10
       /\ (ev'.op \in PushOps /\ crashed' = "none" /\ Len(shapesBackups) = 10)
              => shapesBackups' = SubSeq(shapesBackups, 2, 10) \o <<labelList'>>]_vars

\* the first step of a session with a full history deleted the copy: the
\* snapshot of the loaded list, the oldest one, is gone
C13_Witness ==
    /\ ev.op = "deleteSelectedShape" /\ steps = 1
    /\ Len(shapesBackups) = 10
    /\ shapesBackups[1] = Loaded \o Loaded
    /\ shapesBackups[10] = labelList

\* C14: an undo restores the label list to what it was before the most recent
\* commit on the image that has not been undone yet, and the list shown is
\* the restored shapes of the canvas
C14_UndoRestores ==
    [][(ev'.op = "undoShapeEdit" /\ undo_enabled /\ undo_trail # <<>>)
          => /\ labelList' = undo_trail[Len(undo_trail)]
             /\ labelList' = canvas_shapes']_vars

----------------------------------------------------------------------------
(* The encoder cache *)

\* a step of a prompt handler that went past its guard and called predict
Predicts == ev'.op = "predict" /\ ev'.n > 0

\* C16: every predict runs on an encoding of the active image: since the
\* active image last changed set_image was called, and the last call was
\* given the active image
C16_PredictOnActive ==
    [][Predicts => /\ encoded' # <<>>
                   /\ encoded'[Len(encoded')] = current_img
                   /\ image_encoded_flag']_vars

\* a prediction on image 2, encoded after Next
C16_Witness ==
    /\ ev.op = "predict" /\ ev.n > 0
    /\ current_img = 2 /\ encoded = <<2>>

\* C17: the encoding is dropped on an image switch only: between two changes
\* of the active image set_image is called at most once, and a step that
\* leaves the active image as it is keeps a cached encoding
C17_EncodeOnce ==
    [][/\ Len(encoded') <= 1
       /\ (image_encoded_flag /\ current_img' = current_img) => image_encoded_flag']_vars

----------------------------------------------------------------------------
(* Navigation *)

\* a press of Next or Last that showed another image
Navigates ==
    /\ ev'.op \in {"clickButtonNext", "clickButtonLast"}
    /\ current_img' # current_img
    /\ crashed' = "none"

\* the file f holds the label list: it is the list's serialization, or the
\* list is what was loaded from it, or there is neither a file nor a shape
Holds(f, list) ==
    \/ f = saveLabels(list)
    \/ f.exists /\ loadAnno(f) = list
    \/ ~f.exists /\ list = <<>>

\* C18: when Next or Last shows another image, the file of the image left
\* holds the label list as it was left, and the label list becomes the list
\* stored in the file of the image shown, empty if there is none
C18_Navigation ==
    [][Navigates =>
          /\ Holds(files'[current_output_filename], labelList)
          /\ labelList' = IF files'[current_output_filename'].exists
                          THEN loadAnno(files'[current_output_filename'])
                          ELSE <<>>]_vars

----------------------------------------------------------------------------
(* Invalid prompts *)

\* a prompt handler ran without a model, without an image, or without a box
\* or click on the canvas
DroppedPrompt ==
    /\ ev'.op = "predict"
    /\ (~predictor \/ current_img = 0 \/ ev'.n = 0)

----------------------------------------------------------------------------
(* Loading labels *)

\* the label as stated: the entry at index k of the category list when the
\* label is the integer k and k is an index of the list, the label itself
\* otherwise
StatedLabel(label) ==
    LET t == intOfLabel(label)
    IN IF t.ok /\ 0 <= t.val /\ t.val < Len(category_list)
       THEN category_list[t.val + 1]
       ELSE label

\* the shapes of the current image's file that have points
Surfaced ==
    LET data == files[current_output_filename].shapes
    IN pick(data, {i \in 1..Len(data) : data[i].points # <<>>}, TRUE, 1)

\* C20: after a load every shape of the label list carries the stated label
\* of its shape in the file, and the load has gone through the whole file
C20_LabelResolution ==
    (crashed = "none" /\ current_output_filename.img # 0
         /\ files[current_output_filename].exists)
      => /\ Len(labelList) = Len(Surfaced)
         /\ \A j \in 1..Len(labelList) :
                labelList[j].label = StatedLabel(Surfaced[j].label)

----------------------------------------------------------------------------
(* Choosing and accepting proposals *)

\* C21: a press of proposal button i leaves the proposals as they are; with
\* fewer than i proposals it leaves the selected proposal as it is too, and
\* otherwise the selected proposal becomes proposal i (index i - 1)
C21_Choose ==
    [][ev'.op = "choose_proposal" =>
          /\ sam_mask_proposal' = sam_mask_proposal
          /\ crashed' = "none"
          /\ sam_mask' = IF ev'.i \in 1..Len(sam_mask_proposal)
                         THEN sam_mask_proposal[ev'.i]
                         ELSE sam_mask]_vars

\* button 4 was pressed with three proposals and one of them selected
C21_Witness ==
    /\ ev.op = "choose_proposal" /\ ev.i = 4
    /\ Len(sam_mask_proposal) = 3
    /\ sam_mask # <<>>

\* C22: an accept with no shape selected leaves the label list as it is and
\* reads no answer of the label dialog
C22_EmptyAccept ==
    [][(ev'.op = "addSamMask" /\ sam_mask = <<>>) =>
          /\ labelList' = labelList
          /\ ev' = EvOf("addSamMask")
          /\ crashed' = "none"]_vars

\* an accept with nothing selected pushed a loaded list once more
C22_Witness ==
    /\ ev = EvOf("addSamMask") /\ crashed = "none"
    /\ labelList # <<>>
    /\ Len(shapesBackups) >= 2
    /\ shapesBackups[Len(shapesBackups)] = shapesBackups[Len(shapesBackups) - 1]

\* C23: the shapes an accept commits come from a prompt on the active image:
\* when an accept adds shapes, a prompt has been answered on the active
\* image since it became active
C23_FreshProposal ==
    [][(ev'.op = "addSamMask" /\ Len(labelList') > Len(labelList))
          => encoded # <<>>]_vars

----------------------------------------------------------------------------
(* Saving and loading back *)

\* C24: loading back what saveLabels wrote gives every shape its group id
\* again, and getMaxId gives on the loaded list what it gave before
C24_RoundTrip ==
    LET back == loadAnno(saveLabels(labelList))
    IN /\ Len(back) = Len(labelList)
       /\ \A j \in 1..Len(back) : back[j].group_id = labelList[j].group_id
       /\ getMaxId(back) = getMaxId(labelList)

----------------------------------------------------------------------------
(* Repeated point reduction *)

\* the indices of the second points of the minimum-gap pairs of points
MinPairSeconds(points) ==
    {i + 1 : i \in {k \in 1..(Len(points) - 1) :
                       dist2(points[k], points[k + 1]) = MinGap2(points)}}

\* every consecutive gap of points is above 1.5 times the cap of minGap
AllGapsFar(points) ==
    \A i \in 1..(Len(points) - 1) :
        4 * dist2(points[i], points[i + 1]) > 9 * Sentinel * Sentinel

\* points has two points or more and a consecutive gap of at most the cap
HasCappedGap(points) ==
    Len(points) >= 2 /\ MinGap2(points) <= Sentinel * Sentinel

\* C25 as stated: a pass over a polygon of n >= 2 points with a consecutive
\* gap of at most 10000 leaves fewer than n points and keeps the second point
\* of no minimum-gap pair; a pass leaves a shape as it is only if the shape
\* has a single point
C25_ShrinksAsStated ==
    [][(ev'.op = "reducePoint" /\ crashed' = "none") =>
          \A j \in 1..Len(Reduced) :
              LET points == Reduced[j].points
                  result == labelList'[Len(NotReduced) + j].points
              IN /\ HasCappedGap(points) =>
                       /\ Len(result) < Len(points)
                       /\ \E K \in SUBSET (1..Len(points)) :
                             /\ IsKeptSet(points, K, CappedMinGap2(points))
                             /\ result = Restrict(points, K, 1)
                             /\ K \cap MinPairSeconds(points) = {}
                 /\ result = points => Len(points) = 1]_vars

\* C25: a pass over a polygon of n >= 2 points with a consecutive gap of at
\* most 10000 leaves fewer than n points, and keeps the second point of a
\* minimum-gap pair only if it dropped the first; a pass leaves a shape as
\* it is exactly if the shape has a single point or all its consecutive gaps
\* are above 15000
C25_Shrinks ==
    [][(ev'.op = "reducePoint" /\ crashed' = "none") =>
          \A j \in 1..Len(Reduced) :
              LET points == Reduced[j].points
                  result == labelList'[Len(NotReduced) + j].points
              IN /\ HasCappedGap(points) =>
                       /\ Len(result) < Len(points)
                       /\ \E K \in SUBSET (1..Len(points)) :
                             /\ IsKeptSet(points, K, CappedMinGap2(points))
                             /\ result = Restrict(points, K, 1)
                             /\ \A i \in MinPairSeconds(points) :
                                   (i - 1) \in K => i \notin K
                 /\ result = points <=> (Len(points) = 1 \/ AllGapsFar(points))]_vars

\* a first pass dropped a point and a second pass left the two points that
\* are 15001 apart as they were
C25_Witness ==
    /\ ev.op = "reducePoint" /\ ev.sel = {1} /\ crashed = "none"
    /\ steps = 2
    /\ Len(labelList) = 1
    /\ labelList[1].points = << <<0, 0>>, <<0, 15001>> >>
    /\ Len(shapesBackups) = 3
    /\ Len(shapesBackups[1][1].points) = 3
    /\ shapesBackups[2] = shapesBackups[3]

----------------------------------------------------------------------------
(* The navigation index *)

\* C27: whenever an image is active, current_img_index is an index of
\* img_list and current_img is the image at that index; Next at the last
\* image and Last at the first leave index and active image as they are
C27_Index ==
    [][/\ (current_img' # 0 /\ crashed' = "none") =>
             /\ 0 <= current_img_index'
             /\ current_img_index' <= Len(img_list') - 1
             /\ current_img' = img_list'[current_img_index' + 1]
       /\ (ev'.op = "clickButtonNext" /\ current_img_index = Len(img_list) - 1) =>
             UNCHANGED <<current_img_index, current_img>>
       /\ (ev'.op = "clickButtonLast" /\ current_img_index = 0) =>
             UNCHANGED <<current_img_index, current_img>>]_vars

====
